---------------------------- MODULE Spec2Model ----------------------------
(***************************************************************************)
(* AtomicRefCell (src/src/atomic_ref_cell.rs): a value guarded by one      *)
(* atomic borrow register.  Threads call borrow / try_borrow / borrow_mut  *)
(* / try_borrow_mut, hold the returned views, write through write views,   *)
(* and release views by dropping them (or leak them with mem::forget).     *)
(* Every atomic register operation (load, compare_and_swap, fetch_sub,     *)
(* swap; all SeqCst) is one step, so every interleaving of the register    *)
(* operations of the threads is a behaviour of the model.                  *)
(* Further specifications add the views projected by AtomicRef::map and    *)
(* AtomicRefMut::map, reads through views, Debug formatting and            *)
(* into_inner, InitCell (src/src/init_cell.rs) and AtomicInitCell          *)
(* (src/src/atomic_init_cell.rs).                                          *)
(***************************************************************************)
EXTENDS Integers, FiniteSets

(* ------------------------------ bounds -------------------------------- *)

\* Number of threads sharing the cell.
NThreads == 2

\* Width in bits of the borrow register (usize in the source).
Width == 2

\* Views that memory holds as objects at one time, over all threads.
MaxHeld == 2

(* ----------------------------- constants ------------------------------ *)

Threads == 1..NThreads

\* The values the protected T ranges over.
Values == {"v0", "v1"}

\* The components of a protected pair, as in AtomicRefCell::new((5, 'b')).
Fields == {"f0", "f1"}

\* usize arithmetic is modulo 2^Width.
Modulus == 2 ^ Width

UNUSED == 0

\* !0: all bits set.
WRITING == Modulus - 1

VARIABLES
    borrow,        \* AtomicRefCell.borrow: the register
    value,         \* AtomicRefCell.value: the protected value
    pc,            \* per thread: "idle", or its place inside a borrow call or fmt
    op,            \* per thread: the public function it is executing
    last,          \* the call or drop that completed last: who, what, how
    loaded,        \* per thread: the local `borrow` of try_borrow's loop
    reads,         \* per thread: AtomicRef views it holds, as the borrow calls returned them
    writes,        \* per thread: AtomicRefMut views it holds, as returned
    leakedReads,   \* AtomicRef views leaked with mem::forget
    leakedWrites,  \* AtomicRefMut views leaked with mem::forget
    wlive,         \* per thread: a write view was live ever since its read call began
    rmapped,       \* per thread and field: AtomicRef views projected to the field
    wmapped,       \* per thread and field: AtomicRefMut views projected to the field
    seen,          \* what the last deref, fmt, into_inner or InitCell::get gave
    data           \* InitCell.0: "None", or the value it was initialized with

\* The state that the steps of the borrow calls leave alone.
rest == <<rmapped, wmapped, seen, data>>

vars == <<borrow, value, pc, op, last, loaded, reads, writes,
          leakedReads, leakedWrites, wlive, rest>>

(* ------------------------------ helpers ------------------------------- *)

\* The views held by threads 1..n: the views that borrow calls returned
\* (plain) and the views that map projected to a field (mapped).
RECURSIVE Held(_, _, _)
Held(plain, mapped, n) ==
    IF n = 0 THEN 0
    ELSE plain[n] + mapped[n]["f0"] + mapped[n]["f1"] + Held(plain, mapped, n - 1)

\* Views that exist as objects in some thread, projected or not.
HeldReads == Held(reads, rmapped, NThreads)

HeldWrites == Held(writes, wmapped, NThreads)

\* A view is live from its acquisition to its drop; a leaked view is never
\* dropped, so its borrow never ends.
LiveReads == HeldReads + leakedReads

LiveWrites == HeldWrites + leakedWrites

LiveViews == LiveReads + LiveWrites

InCall == Cardinality({t \in Threads : pc[t] # "idle"})

\* A view is two references wide, so the views that exist as objects at one
\* time (and the return slots of the calls in progress) are limited by memory
\* and always fewer than usize::MAX; only forgotten views are not.
CanHold ==
    /\ HeldReads + HeldWrites + InCall < MaxHeld
    /\ HeldReads + HeldWrites + InCall < WRITING - 1

\* The record of a completed call or drop: thread t, function o, outcome r
\* ("Some", "None", "panic" for the borrow calls; "ok", "assert" for a drop
\* whose debug assertion held or failed).
Done(t, o, r) == [thread |-> t, op |-> o, result |-> r]

(* ------------------------- register protocol -------------------------- *)

\* Variant of ReadRefused: the WRITING check is missing (the plain fetch_add
\* the source's note warns against).
ReadRefused_Never(b) == FALSE

\* Variant of ReadRefused: the register is compared with the wrong constant.
ReadRefused_OnUnused(b) == b = UNUSED

\* try_borrow, line 186: the read is refused when the register is WRITING.
ReadRefused(b) == b = WRITING

\* try_borrow, line 188: the new value of the compare-and-swap.
ReadNext(b) == (b + 1) % Modulus

\* Variant of WriteGranted: only another writer is excluded, readers are not.
WriteGranted_IgnoresReaders(b) == b # WRITING

\* Variant of WriteGranted: the swap is unconditional.
WriteGranted_Always(b) == TRUE

\* try_borrow_mut, line 284: the compare-and-swap from UNUSED applies.
WriteGranted(b) == b = UNUSED

\* Variant of ReleaseRead: the claim of a read view is released twice.
ReleaseRead_Twice(b) == (b - 2) % Modulus

\* BorrowGuard::drop, line 417: fetch_sub(1), wrapping.
ReleaseRead(b) == (b - 1) % Modulus

\* Variant of ReleaseWrite: the drop does not reset the register.
ReleaseWrite_Keeps(b) == b

\* MutBorrowGuard::drop, line 426: swap(UNUSED).
ReleaseWrite(b) == UNUSED

\* Variant of Outcome: borrow hands the absent result on instead of panicking.
Outcome_ReadNoPanic(o, r) ==
    IF r = "None" /\ o = "borrow_mut" THEN "panic" ELSE r

\* Variant of Outcome: borrow_mut hands the absent result on instead of panicking.
Outcome_WriteNoPanic(o, r) ==
    IF r = "None" /\ o = "borrow" THEN "panic" ELSE r

\* borrow / borrow_mut: Option::expect panics on None.
Outcome(o, r) ==
    IF r = "None" /\ o \in {"borrow", "borrow_mut"} THEN "panic" ELSE r

\* Variant of CasOutcome: a lost race is reported as None instead of retried.
CasOutcome_GivesUp(applied) == IF applied THEN "Some" ELSE "None"

\* try_borrow, lines 188-194: return Some on an applied swap, loop otherwise.
CasOutcome(applied) == IF applied THEN "Some" ELSE "retry"

\* Variant of CasMutOutcome: the writer spins until the register is UNUSED.
CasMutOutcome_Spins(applied) == IF applied THEN "Some" ELSE "retry"

\* try_borrow_mut, lines 284-291: one swap; Some when applied, None otherwise.
CasMutOutcome(applied) == IF applied THEN "Some" ELSE "None"

(* ------------------------------- Init --------------------------------- *)

\* AtomicRefCell::new(v); next to it, InitCell::new().
New(v) ==
    /\ borrow = UNUSED
    /\ value = v
    /\ pc = [t \in Threads |-> "idle"]
    /\ op = [t \in Threads |-> "none"]
    /\ last = Done(0, "none", "none")
    /\ loaded = [t \in Threads |-> 0]
    /\ reads = [t \in Threads |-> 0]
    /\ writes = [t \in Threads |-> 0]
    /\ leakedReads = 0
    /\ leakedWrites = 0
    /\ wlive = [t \in Threads |-> FALSE]
    /\ rmapped = [t \in Threads |-> [f \in Fields |-> 0]]
    /\ wmapped = [t \in Threads |-> [f \in Fields |-> 0]]
    /\ seen = "none"
    /\ data = "None"

Init == \E v \in Values : New(v)

(* ------------------------------ actions ------------------------------- *)

\* Entry of a call of public function o by thread t.
Enter(t, o, first) ==
    /\ pc[t] = "idle"
    /\ CanHold
    /\ pc' = [pc EXCEPT ![t] = first]
    /\ op' = [op EXCEPT ![t] = o]
    /\ wlive' = [wlive EXCEPT ![t] = first = "load" /\ LiveWrites > 0]
    /\ UNCHANGED <<rest, borrow, value, last, loaded, reads, writes, leakedReads, leakedWrites>>

TryBorrow(t) == Enter(t, "try_borrow", "load")

Borrow(t) == Enter(t, "borrow", "load")

TryBorrowMut(t) == Enter(t, "try_borrow_mut", "casw")

BorrowMut(t) == Enter(t, "borrow_mut", "casw")

\* try_borrow, lines 185-186: load the register; return None when WRITING.
TryBorrowLoad(t) ==
    /\ pc[t] = "load"
    /\ IF ReadRefused(borrow)
       THEN /\ pc' = [pc EXCEPT ![t] = "idle"]
            /\ last' = Done(t, op[t], Outcome(op[t], "None"))
            /\ op' = [op EXCEPT ![t] = "none"]
            /\ wlive' = [wlive EXCEPT ![t] = FALSE]
            /\ UNCHANGED loaded
       ELSE /\ pc' = [pc EXCEPT ![t] = "cas"]
            /\ loaded' = [loaded EXCEPT ![t] = borrow]
            /\ UNCHANGED <<op, last, wlive>>
    /\ UNCHANGED <<rest, borrow, value, reads, writes, leakedReads, leakedWrites>>

\* try_borrow, lines 188-194: compare_and_swap(borrow, borrow + 1); the swap
\* applies when the register still holds the loaded value.
TryBorrowCas(t) ==
    /\ pc[t] = "cas"
    /\ LET applied == borrow = loaded[t]
           r == CasOutcome(applied)
       IN
       /\ loaded' = [loaded EXCEPT ![t] = 0]
       /\ IF applied
          THEN /\ borrow' = ReadNext(loaded[t])
               /\ reads' = [reads EXCEPT ![t] = @ + 1]
          ELSE UNCHANGED <<borrow, reads>>
       /\ IF r = "retry"
          THEN /\ pc' = [pc EXCEPT ![t] = "load"]
               /\ UNCHANGED <<op, last, wlive>>
          ELSE /\ pc' = [pc EXCEPT ![t] = "idle"]
               /\ last' = Done(t, op[t], Outcome(op[t], r))
               /\ op' = [op EXCEPT ![t] = "none"]
               /\ wlive' = [wlive EXCEPT ![t] = FALSE]
    /\ UNCHANGED <<rest, value, writes, leakedReads, leakedWrites>>

\* try_borrow_mut, lines 284-291: compare_and_swap(UNUSED, WRITING).
TryBorrowMutCas(t) ==
    /\ pc[t] = "casw"
    /\ LET applied == WriteGranted(borrow)
           r == CasMutOutcome(applied)
       IN
       /\ IF applied
          THEN /\ borrow' = WRITING
               /\ writes' = [writes EXCEPT ![t] = @ + 1]
          ELSE UNCHANGED <<borrow, writes>>
       /\ IF r = "retry"
          THEN UNCHANGED <<pc, op, last, wlive>>
          ELSE /\ pc' = [pc EXCEPT ![t] = "idle"]
               /\ last' = Done(t, op[t], Outcome(op[t], r))
               /\ op' = [op EXCEPT ![t] = "none"]
               /\ wlive' = [wlive EXCEPT ![t] = FALSE]
    /\ UNCHANGED <<rest, value, loaded, reads, leakedReads, leakedWrites>>

\* BorrowGuard::drop: fetch_sub(1), then the debug assertion on the old value.
DropRead(t) ==
    /\ pc[t] = "idle"
    /\ reads[t] > 0
    /\ borrow' = ReleaseRead(borrow)
    /\ reads' = [reads EXCEPT ![t] = @ - 1]
    /\ last' = Done(t, "drop_read",
                     IF borrow # WRITING /\ borrow # UNUSED THEN "ok" ELSE "assert")
    /\ UNCHANGED <<rest, value, pc, op, loaded, writes, leakedReads, leakedWrites, wlive>>

\* MutBorrowGuard::drop: swap(UNUSED), then the debug assertion on the old value.
DropWrite(t) ==
    /\ pc[t] = "idle"
    /\ writes[t] > 0
    /\ borrow' = ReleaseWrite(borrow)
    /\ writes' = [writes EXCEPT ![t] = @ - 1]
    /\ last' = Done(t, "drop_write", IF borrow = WRITING THEN "ok" ELSE "assert")
    /\ wlive' = [u \in Threads |-> wlive[u] /\ LiveWrites > 1]
    /\ UNCHANGED <<rest, value, pc, op, loaded, reads, leakedReads, leakedWrites>>

\* DerefMut for AtomicRefMut: assignment through a write view.
Write(t, v) ==
    /\ pc[t] = "idle"
    /\ writes[t] > 0
    /\ value' = v
    /\ UNCHANGED <<rest, borrow, pc, op, last, loaded, reads, writes,
                   leakedReads, leakedWrites, wlive>>

\* mem::forget of an AtomicRef: its BorrowGuard never runs.
ForgetRead(t) ==
    /\ pc[t] = "idle"
    /\ reads[t] > 0
    /\ leakedReads < Modulus
    /\ reads' = [reads EXCEPT ![t] = @ - 1]
    /\ leakedReads' = leakedReads + 1
    /\ UNCHANGED <<rest, borrow, value, pc, op, last, loaded, writes, leakedWrites, wlive>>

\* mem::forget of an AtomicRefMut: its MutBorrowGuard never runs.
ForgetWrite(t) ==
    /\ pc[t] = "idle"
    /\ writes[t] > 0
    /\ leakedWrites < Modulus
    /\ writes' = [writes EXCEPT ![t] = @ - 1]
    /\ leakedWrites' = leakedWrites + 1
    /\ UNCHANGED <<rest, borrow, value, pc, op, last, loaded, reads, leakedReads, wlive>>

Next ==
    \E t \in Threads :
        \/ TryBorrow(t)
        \/ Borrow(t)
        \/ TryBorrowMut(t)
        \/ BorrowMut(t)
        \/ TryBorrowLoad(t)
        \/ TryBorrowCas(t)
        \/ TryBorrowMutCas(t)
        \/ DropRead(t)
        \/ DropWrite(t)
        \/ \E v \in Values : Write(t, v)
        \/ ForgetRead(t)
        \/ ForgetWrite(t)

Spec == Init /\ [][Next]_vars


(* ---------------- specification: readers only ------------------------- *)

\* Threads take read borrows (try_borrow, or borrow, which is try_borrow
\* followed by expect) and drop the views they got; nothing else.
ReadersNext ==
    \E t \in Threads :
        \/ TryBorrow(t)
        \/ Borrow(t)
        \/ TryBorrowLoad(t)
        \/ TryBorrowCas(t)
        \/ DropRead(t)

ReadersSpec == Init /\ [][ReadersNext]_vars

(* ----------------------------- step names ----------------------------- *)

\* Thread t executes the load of try_borrow's loop in this step.
LoadStep(t) == pc[t] = "load" /\ pc'[t] # "load"

\* Thread t returns from the compare-and-swap of try_borrow_mut in this step.
CasMutStep(t) == pc[t] = "casw" /\ pc'[t] = "idle"

\* Thread t returns from a call in this step.
ReturnStep(t) == pc[t] # "idle" /\ pc'[t] = "idle"

(* ---------------- specification: fair scheduling ---------------------- *)

\* The steps a thread takes inside a call; the scheduler runs every thread
\* that is inside a call again and again.  Calls, drops and leaks are the
\* callers' choice and carry no fairness.
InCallStep(t) == TryBorrowLoad(t) \/ TryBorrowCas(t) \/ TryBorrowMutCas(t)

\* No borrow call reads the protected value, so the fair specification keeps
\* one initial value and leaves the writes through a write view out.  Read
\* views are not leaked here: the register counts read views that exist.
FairInit == Init /\ value = "v0"

FairNext ==
    \E t \in Threads :
        \/ TryBorrow(t)
        \/ Borrow(t)
        \/ TryBorrowMut(t)
        \/ BorrowMut(t)
        \/ TryBorrowLoad(t)
        \/ TryBorrowCas(t)
        \/ TryBorrowMutCas(t)
        \/ DropRead(t)
        \/ DropWrite(t)
        \/ ForgetWrite(t)

FairSpec ==
    FairInit /\ [][FairNext]_vars /\ \A t \in Threads : WF_vars(InCallStep(t))

(* ------------------- specification: projected views ------------------- *)

\* AtomicRef::map, line 337 (AtomicRefMut::map, line 391): the new view's
\* reference is f(orig.value), here the field f of the pair.
Project(v, f) == v[f]

\* Variant of Assign: the assignment overwrites every field of the pair.
Assign_Whole(v, f, x) == [g \in Fields |-> x]

\* DerefMut through a reference to field f: only that place is assigned.
Assign(v, f, x) == [v EXCEPT ![f] = x]

\* Variant of MapGuard: the original view's guard is dropped when the view is
\* consumed.
MapGuard_DropsOrig(b) == ReleaseRead(b)

\* AtomicRef::map, line 338 (AtomicRefMut::map, line 392): borrow: orig.borrow.
\* The guard is moved into the new view; nothing touches the register.
MapGuard(b) == b

\* Variant of UnwindRead: the guard of the original view is lost in the panic.
UnwindRead_Forgets(b) == b

\* AtomicRef::map, lines 333-337: f panics while orig, a parameter of map, still
\* owns its BorrowGuard; unwinding drops orig and with it the guard.
UnwindRead(b) == ReleaseRead(b)

\* AtomicRefMut::map, lines 387-391: the same for the MutBorrowGuard.
UnwindWrite(b) == ReleaseWrite(b)

\* A read through a shared reference.  It gives x; racing with a holder of a
\* write view it is a data race and gives anything.
Observed(x) == IF LiveWrites > 0 THEN Values ELSE {x}

\* AtomicRefCell::new((v0, v0)).
MapInit == New([f \in Fields |-> "v0"])

\* AtomicRef::map(orig, |t| &t.f).
MapRead(t, f) ==
    /\ pc[t] = "idle"
    /\ reads[t] > 0
    /\ borrow' = MapGuard(borrow)
    /\ reads' = [reads EXCEPT ![t] = @ - 1]
    /\ rmapped' = [rmapped EXCEPT ![t][f] = @ + 1]
    /\ last' = Done(t, "map", "Some")
    /\ UNCHANGED <<value, pc, op, loaded, writes, leakedReads, leakedWrites,
                   wlive, wmapped, seen, data>>

\* AtomicRef::map(orig, f) with an f that panics.
MapReadPanic(t) ==
    /\ pc[t] = "idle"
    /\ reads[t] > 0
    /\ borrow' = UnwindRead(borrow)
    /\ reads' = [reads EXCEPT ![t] = @ - 1]
    /\ last' = Done(t, "map", "panic")
    /\ UNCHANGED <<rest, value, pc, op, loaded, writes, leakedReads, leakedWrites, wlive>>

\* AtomicRefMut::map(orig, |t| &mut t.f).
MapWrite(t, f) ==
    /\ pc[t] = "idle"
    /\ writes[t] > 0
    /\ borrow' = MapGuard(borrow)
    /\ writes' = [writes EXCEPT ![t] = @ - 1]
    /\ wmapped' = [wmapped EXCEPT ![t][f] = @ + 1]
    /\ last' = Done(t, "map_mut", "Some")
    /\ UNCHANGED <<value, pc, op, loaded, reads, leakedReads, leakedWrites,
                   wlive, rmapped, seen, data>>

\* AtomicRefMut::map(orig, f) with an f that panics.
MapWritePanic(t) ==
    /\ pc[t] = "idle"
    /\ writes[t] > 0
    /\ borrow' = UnwindWrite(borrow)
    /\ writes' = [writes EXCEPT ![t] = @ - 1]
    /\ last' = Done(t, "map_mut", "panic")
    /\ wlive' = [u \in Threads |-> wlive[u] /\ LiveWrites > 1]
    /\ UNCHANGED <<rest, value, pc, op, loaded, reads, leakedReads, leakedWrites>>

\* Drop of a projected AtomicRef: the BorrowGuard it took over runs.
DropMappedRead(t, f) ==
    /\ pc[t] = "idle"
    /\ rmapped[t][f] > 0
    /\ borrow' = ReleaseRead(borrow)
    /\ rmapped' = [rmapped EXCEPT ![t][f] = @ - 1]
    /\ last' = Done(t, "drop_read",
                     IF borrow # WRITING /\ borrow # UNUSED THEN "ok" ELSE "assert")
    /\ UNCHANGED <<value, pc, op, loaded, reads, writes, leakedReads, leakedWrites,
                   wlive, wmapped, seen, data>>

\* Drop of a projected AtomicRefMut: the MutBorrowGuard it took over runs.
DropMappedWrite(t, f) ==
    /\ pc[t] = "idle"
    /\ wmapped[t][f] > 0
    /\ borrow' = ReleaseWrite(borrow)
    /\ wmapped' = [wmapped EXCEPT ![t][f] = @ - 1]
    /\ last' = Done(t, "drop_write", IF borrow = WRITING THEN "ok" ELSE "assert")
    /\ wlive' = [u \in Threads |-> wlive[u] /\ LiveWrites > 1]
    /\ UNCHANGED <<value, pc, op, loaded, reads, writes, leakedReads, leakedWrites,
                   rmapped, seen, data>>

\* DerefMut for AtomicRefMut, then assignment of field f: through a view of the
\* pair, or through a view projected to f.
AssignField(t, f, x) ==
    /\ pc[t] = "idle"
    /\ writes[t] > 0 \/ wmapped[t][f] > 0
    /\ value' = Assign(value, f, x)
    /\ last' = Done(t, "assign", f)
    /\ UNCHANGED <<rest, borrow, pc, op, loaded, reads, writes,
                   leakedReads, leakedWrites, wlive>>

\* Deref for AtomicRef, then a read of field f: through a view of the pair, or
\* through a view projected to f.
DerefField(t, f) ==
    /\ pc[t] = "idle"
    /\ reads[t] > 0 \/ rmapped[t][f] > 0
    /\ seen' \in Observed(Project(value, f))
    /\ last' = Done(t, "deref", f)
    /\ UNCHANGED <<borrow, value, pc, op, loaded, reads, writes,
                   leakedReads, leakedWrites, wlive, rmapped, wmapped, data>>

\* The views are taken with borrow and borrow_mut, as in the examples of map.
MapNext ==
    \E t \in Threads :
        \/ Borrow(t)
        \/ BorrowMut(t)
        \/ TryBorrowLoad(t)
        \/ TryBorrowCas(t)
        \/ TryBorrowMutCas(t)
        \/ DropRead(t)
        \/ DropWrite(t)
        \/ MapReadPanic(t)
        \/ MapWritePanic(t)
        \/ \E f \in Fields :
              \/ MapRead(t, f)
              \/ MapWrite(t, f)
              \/ DropMappedRead(t, f)
              \/ DropMappedWrite(t, f)
              \/ DerefField(t, f)
              \/ \E x \in Values : AssignField(t, f, x)

MapSpec == MapInit /\ [][MapNext]_vars

(* ----------------- specification: writes and reads -------------------- *)

\* AtomicRefCell::new(v0).
CellInit == New("v0")

\* Deref for AtomicRef: a read of the protected value through a read view.
Deref(t) ==
    /\ pc[t] = "idle"
    /\ reads[t] > 0
    /\ seen' \in Observed(value)
    /\ last' = Done(t, "deref", "ok")
    /\ UNCHANGED <<borrow, value, pc, op, loaded, reads, writes,
                   leakedReads, leakedWrites, wlive, rmapped, wmapped, data>>

\* Threads take views with borrow and borrow_mut, assign through write views,
\* read through read views and drop the views.
CellNext ==
    \E t \in Threads :
        \/ Borrow(t)
        \/ BorrowMut(t)
        \/ TryBorrowLoad(t)
        \/ TryBorrowCas(t)
        \/ TryBorrowMutCas(t)
        \/ DropRead(t)
        \/ DropWrite(t)
        \/ \E v \in Values : Write(t, v)
        \/ Deref(t)

CellSpec == CellInit /\ [][CellNext]_vars

(* ------------------ specification: the cell consumed ------------------ *)

\* AtomicRefCell::into_inner(self).  The cell is moved into the call, which the
\* compiler accepts only when no view of it exists and no call on it is in
\* progress; a view that was forgotten does not exist any more.  Line 94: the
\* debug assertion on the register (a panic in a debug build, nothing in a
\* release build); line 95: the protected value is returned.
IntoInner(t) ==
    /\ \A u \in Threads : pc[u] = "idle"
    /\ HeldReads + HeldWrites = 0
    /\ last' = Done(t, "into_inner", IF borrow = UNUSED THEN "ok" ELSE "assert")
    /\ seen' \in IF borrow = UNUSED THEN {value} ELSE {value, "panic"}
    /\ pc' = [u \in Threads |-> "consumed"]
    /\ UNCHANGED <<borrow, value, op, loaded, reads, writes, leakedReads,
                   leakedWrites, wlive, rmapped, wmapped, data>>

OwnedNext == Next \/ \E t \in Threads : IntoInner(t)

OwnedSpec == Init /\ [][OwnedNext]_vars

(* ------------------ specification: Debug formatting -------------------- *)

\* Debug::fmt for AtomicRefCell, line 297: the call of try_borrow.
Fmt(t) == Enter(t, "fmt", "fload")

\* fmt, line 297, in try_borrow lines 185-186: the load.  On WRITING try_borrow
\* returns None and fmt writes the placeholder (line 300) and returns.
FmtLoad(t) ==
    /\ pc[t] = "fload"
    /\ IF ReadRefused(borrow)
       THEN /\ pc' = [pc EXCEPT ![t] = "idle"]
            /\ seen' = "<borrowed>"
            /\ last' = Done(t, "fmt", "ok")
            /\ op' = [op EXCEPT ![t] = "none"]
            /\ UNCHANGED loaded
       ELSE /\ pc' = [pc EXCEPT ![t] = "fcas"]
            /\ loaded' = [loaded EXCEPT ![t] = borrow]
            /\ UNCHANGED <<op, last, seen>>
    /\ UNCHANGED <<borrow, value, reads, writes, leakedReads, leakedWrites, wlive,
                   rmapped, wmapped, data>>

\* fmt, line 297, in try_borrow lines 188-194: the compare-and-swap.  With the
\* view it returns fmt goes on to line 298.
FmtCas(t) ==
    /\ pc[t] = "fcas"
    /\ LET applied == borrow = loaded[t]
           r == CasOutcome(applied)
       IN
       /\ loaded' = [loaded EXCEPT ![t] = 0]
       /\ IF applied
          THEN /\ borrow' = ReadNext(loaded[t])
               /\ reads' = [reads EXCEPT ![t] = @ + 1]
          ELSE UNCHANGED <<borrow, reads>>
       /\ IF r = "None"
          THEN /\ pc' = [pc EXCEPT ![t] = "idle"]
               /\ seen' = "<borrowed>"
               /\ last' = Done(t, "fmt", "ok")
               /\ op' = [op EXCEPT ![t] = "none"]
          ELSE /\ pc' = [pc EXCEPT ![t] = IF r = "Some" THEN "fwrite" ELSE "fload"]
               /\ UNCHANGED <<op, last, seen>>
    /\ UNCHANGED <<value, writes, leakedReads, leakedWrites, wlive,
                   rmapped, wmapped, data>>

\* fmt, lines 298-299: the value is written through the read view, then the
\* view goes out of scope and its BorrowGuard runs (fetch_sub, debug assertion).
FmtWrite(t) ==
    /\ pc[t] = "fwrite"
    /\ seen' \in Observed(value)
    /\ borrow' = ReleaseRead(borrow)
    /\ reads' = [reads EXCEPT ![t] = @ - 1]
    /\ pc' = [pc EXCEPT ![t] = "idle"]
    /\ op' = [op EXCEPT ![t] = "none"]
    /\ last' = Done(t, "fmt",
                     IF borrow # WRITING /\ borrow # UNUSED THEN "ok" ELSE "assert")
    /\ UNCHANGED <<value, loaded, writes, leakedReads, leakedWrites, wlive,
                   rmapped, wmapped, data>>

FmtNext ==
    \/ Next
    \/ \E t \in Threads :
          \/ Fmt(t)
          \/ FmtLoad(t)
          \/ FmtCas(t)
          \/ FmtWrite(t)

FmtSpec == Init /\ [][FmtNext]_vars

(* ----------------------- specification: InitCell ----------------------- *)

\* The values an InitCell<T> is initialized with.
Inits == {"i1", "i2", "i3", "i4", "i5", "i6", "i7", "i8"}

\* InitCell::new(): the cell holds None.
InitCell_new == New("v0")

\* Variant of IsNone: the check before the assignment is missing.
IsNone_Always(d) == TRUE

\* InitCell::init, line 106: data.is_none().
IsNone(d) == d = "None"

\* InitCell::init(value), lines 104-108: the assertion, then the assignment.
\* InitCell is Send and not Sync: its calls come one at a time, from the thread
\* that has the cell.
InitCell_init(t, v) ==
    /\ IF IsNone(data)
       THEN /\ data' = v
            /\ last' = Done(t, "init", "ok")
       ELSE /\ data' = data
            /\ last' = Done(t, "init", "panic")
    /\ UNCHANGED <<borrow, value, pc, op, loaded, reads, writes, leakedReads,
                   leakedWrites, wlive, rmapped, wmapped, seen>>

\* InitCell::get(), lines 128-131: data.as_ref().
InitCell_get(t) ==
    /\ seen' = data
    /\ last' = Done(t, "get", "ok")
    /\ UNCHANGED <<borrow, value, pc, op, loaded, reads, writes, leakedReads,
                   leakedWrites, wlive, rmapped, wmapped, data>>

\* Deref for InitCell, lines 164-166: get().expect(..).
InitCell_deref(t) ==
    /\ IF data = "None"
       THEN /\ last' = Done(t, "deref", "panic")
            /\ UNCHANGED seen
       ELSE /\ last' = Done(t, "deref", "ok")
            /\ seen' = data
    /\ UNCHANGED <<borrow, value, pc, op, loaded, reads, writes, leakedReads,
                   leakedWrites, wlive, rmapped, wmapped, data>>

InitCellNext ==
    \E t \in Threads :
        \/ \E v \in Inits : InitCell_init(t, v)
        \/ InitCell_get(t)
        \/ InitCell_deref(t)

InitCellSpec == InitCell_new /\ [][InitCellNext]_vars

(* -------------------- specification: AtomicInitCell -------------------- *)

\* AtomicInitCell<T> is AtomicRefCell<Option<T>>: the protected value is
\* "None", or the value the cell was initialized with (the values of Inits,
\* as for InitCell).
Options == {"None"} \cup Inits

\* AtomicInitCell::new(): AtomicRefCell::new(None).
AtomicInitCell_new == New("None")

\* Variant of AtomicIsNone: the check before the assignment is missing.
AtomicIsNone_Always(d) == TRUE

\* AtomicInitCell::init, line 13: borrow.is_none().
AtomicIsNone(d) == d = "None"

\* A read through the exclusive reference of a write view.  It gives x; with
\* any other view live it races and gives anything.
ObservedMut(x) == IF LiveViews > 1 THEN Options ELSE {x}

\* AtomicInitCell::init(value), line 12: the call of borrow_mut.
AtomicInitCell_init(t) == Enter(t, "init", "icas")

\* init, line 12, in try_borrow_mut line 284: the compare-and-swap; borrow_mut
\* panics when it does not apply, and init with it.
AtomicInitCas(t) ==
    /\ pc[t] = "icas"
    /\ LET applied == WriteGranted(borrow)
           r == Outcome("borrow_mut", CasMutOutcome(applied))
       IN
       /\ IF applied
          THEN /\ borrow' = WRITING
               /\ writes' = [writes EXCEPT ![t] = @ + 1]
          ELSE UNCHANGED <<borrow, writes>>
       /\ IF r = "panic"
          THEN /\ pc' = [pc EXCEPT ![t] = "idle"]
               /\ last' = Done(t, "init", "panic")
               /\ op' = [op EXCEPT ![t] = "none"]
          ELSE /\ pc' = [pc EXCEPT ![t] = IF r = "Some" THEN "icheck" ELSE "icas"]
               /\ UNCHANGED <<op, last>>
    /\ UNCHANGED <<rest, value, loaded, reads, leakedReads, leakedWrites, wlive>>

\* init, line 13: the assertion on the value read through the write view.  When
\* it fails init panics and unwinding drops the write view: MutBorrowGuard::drop.
AtomicInitCheck(t) ==
    /\ pc[t] = "icheck"
    /\ \E d \in ObservedMut(value) :
          IF AtomicIsNone(d)
          THEN /\ pc' = [pc EXCEPT ![t] = "istore"]
               /\ UNCHANGED <<borrow, writes, op, last>>
          ELSE /\ borrow' = ReleaseWrite(borrow)
               /\ writes' = [writes EXCEPT ![t] = @ - 1]
               /\ pc' = [pc EXCEPT ![t] = "idle"]
               /\ last' = Done(t, "init", "panic")
               /\ op' = [op EXCEPT ![t] = "none"]
    /\ UNCHANGED <<rest, value, loaded, reads, leakedReads, leakedWrites, wlive>>

\* init, line 14: *borrow = Some(value).  The argument of init is used here
\* only, so it is drawn here.
AtomicInitStore(t, v) ==
    /\ pc[t] = "istore"
    /\ value' = v
    /\ pc' = [pc EXCEPT ![t] = "idrop"]
    /\ UNCHANGED <<rest, borrow, op, last, loaded, reads, writes,
                   leakedReads, leakedWrites, wlive>>

\* init, line 15: the write view goes out of scope, MutBorrowGuard::drop runs,
\* and init returns.
AtomicInitDrop(t) ==
    /\ pc[t] = "idrop"
    /\ borrow' = ReleaseWrite(borrow)
    /\ writes' = [writes EXCEPT ![t] = @ - 1]
    /\ pc' = [pc EXCEPT ![t] = "idle"]
    /\ last' = Done(t, "init", IF borrow = WRITING THEN "ok" ELSE "assert")
    /\ op' = [op EXCEPT ![t] = "none"]
    /\ UNCHANGED <<rest, value, loaded, reads, leakedReads, leakedWrites, wlive>>

\* Threads call init on one shared cell, in any interleaving.
AtomicInitNext ==
    \E t \in Threads :
        \/ AtomicInitCell_init(t)
        \/ AtomicInitCas(t)
        \/ AtomicInitCheck(t)
        \/ \E v \in Inits : AtomicInitStore(t, v)
        \/ AtomicInitDrop(t)

AtomicInitSpec == AtomicInitCell_new /\ [][AtomicInitNext]_vars

(* ------------------------------- claims ------------------------------- *)

\* C1: mutual exclusion.  In every reachable state at most one write view is
\* live, and no read view is live while a write view is live.
C1_MutualExclusion ==
    /\ LiveWrites <= 1
    /\ LiveWrites >= 1 => LiveReads = 0

\* C1 witness: a write view is live and another thread's attempt has just
\* been turned away.
C1_Witness ==
    \E t \in Threads :
        /\ writes[t] = 1
        /\ borrow = WRITING
        /\ last.thread \in Threads \ {t}
        /\ last.result \in {"None", "panic"}

\* C2: register accuracy.  The register is 0 exactly when no view is live, is
\* k in 1..MAX-1 exactly when k read views and no write view are live, and is
\* the write-sentinel exactly when one write view is live.
C2_RegisterAccuracy ==
    /\ borrow = UNUSED <=> LiveViews = 0
    /\ \A k \in 1..(WRITING - 1) :
          borrow = k <=> (LiveReads = k /\ LiveWrites = 0)
    /\ borrow = WRITING <=> LiveWrites = 1

\* C3: with readers only, no try_borrow returns None (and no borrow panics),
\* and the register equals the number of live read views in every state.
C3_ReadersAlwaysSucceed ==
    /\ last.result \in {"none", "Some", "ok"}
    /\ borrow = LiveReads
    /\ LiveWrites = 0

\* C3 witness: a try_borrow has just returned a read view to one thread while
\* another thread holds a read view too.
C3_Witness ==
    \E t, u \in Threads :
        /\ t # u
        /\ last = Done(t, "try_borrow", "Some")
        /\ reads[t] = 1 /\ reads[u] = 1
        /\ borrow = 2

\* C4: a try_borrow_mut whose compare-and-swap happens while any view is live
\* returns None, and a try_borrow_mut that returns None leaves the register,
\* the value and the views as they were.
C4_TryBorrowMutRefused ==
    [][\A t \in Threads :
          (CasMutStep(t) /\ op[t] = "try_borrow_mut") =>
             /\ LiveViews > 0 => last' = Done(t, "try_borrow_mut", "None")
             /\ last'.result = "None" =>
                   /\ borrow' = borrow
                   /\ value' = value
                   /\ writes' = writes
                   /\ reads' = reads]_vars

\* C4 witness: a try_borrow_mut has just returned None while another thread
\* holds a read view.
C4_Witness ==
    \E t, u \in Threads :
        /\ t # u
        /\ last = Done(t, "try_borrow_mut", "None")
        /\ reads[u] > 0

\* C5: a try_borrow during which a write view was live all the time returns
\* None, creates no read view and leaves the register at the write-sentinel.
C5_TryBorrowRefused ==
    [][\A t \in Threads :
          (ReturnStep(t) /\ op[t] = "try_borrow" /\ wlive[t]) =>
             /\ last' = Done(t, "try_borrow", "None")
             /\ reads' = reads
             /\ borrow = WRITING
             /\ borrow' = WRITING]_vars

\* C5 witness: a try_borrow has just returned None while another thread holds
\* the write view.
C5_Witness ==
    \E t, u \in Threads :
        /\ t # u
        /\ last = Done(t, "try_borrow", "None")
        /\ writes[u] = 1
        /\ borrow = WRITING

\* C6: try_borrow returns None only at a load that read the write-sentinel,
\* which means only while a write view is live; a lost compare-and-swap (pure
\* reader contention) never makes it return None.
C6_NoneOnlyUnderWriter ==
    [][\A t \in Threads :
          (ReturnStep(t) /\ op[t] = "try_borrow" /\ last'.result = "None") =>
             /\ pc[t] = "load"
             /\ borrow = WRITING
             /\ LiveWrites = 1]_vars

\* C7: a borrow whose load happens while a write view is live panics, returns
\* no read view and leaves the register and the live write view as they were.
C7_BorrowPanics ==
    [][\A t \in Threads :
          (LoadStep(t) /\ op[t] = "borrow" /\ LiveWrites > 0) =>
             /\ pc'[t] = "idle"
             /\ last' = Done(t, "borrow", "panic")
             /\ reads' = reads
             /\ borrow' = borrow
             /\ borrow' = WRITING
             /\ LiveWrites' = LiveWrites]_vars

\* C7 witness: a borrow has just panicked while another thread holds the write
\* view.
C7_Witness ==
    \E t, u \in Threads :
        /\ t # u
        /\ last = Done(t, "borrow", "panic")
        /\ writes[u] = 1
        /\ borrow = WRITING

\* C8: a borrow_mut in progress can always take its one compare-and-swap and
\* return with it (it never waits), and when any view is live at that step,
\* the caller's own read view included, it panics, returns no write view and
\* leaves the register and the value as they were.
C8_BorrowMutPanics ==
    /\ [](\A t \in Threads :
             pc[t] = "casw" => ENABLED (TryBorrowMutCas(t) /\ pc'[t] = "idle"))
    /\ [][\A t \in Threads :
             (CasMutStep(t) /\ op[t] = "borrow_mut" /\ LiveViews > 0) =>
                /\ last' = Done(t, "borrow_mut", "panic")
                /\ writes' = writes
                /\ reads' = reads
                /\ borrow' = borrow
                /\ value' = value]_vars

\* C8 witness: a borrow_mut has just panicked in a thread that itself holds
\* the only live view, a read view.
C8_Witness ==
    \E t \in Threads :
        /\ last = Done(t, "borrow_mut", "panic")
        /\ reads[t] = 1
        /\ LiveViews = 1
        /\ borrow = 1

\* C9: a drop that ends the last live view leaves the register UNUSED, and a
\* try_borrow_mut whose compare-and-swap happens while no view is live returns
\* the write view.
C9_ReleaseMakesEligible ==
    [][/\ (LiveViews > 0 /\ LiveViews' = 0) => borrow' = UNUSED
       /\ \A t \in Threads :
             (CasMutStep(t) /\ op[t] = "try_borrow_mut" /\ LiveViews = 0) =>
                /\ last' = Done(t, "try_borrow_mut", "Some")
                /\ writes'[t] = writes[t] + 1
                /\ borrow' = WRITING]_vars

\* C9 witness: a write view has just been dropped, no view is live, and
\* another thread's try_borrow_mut is about to take its compare-and-swap.
C9_Witness ==
    \E t, u \in Threads :
        /\ t # u
        /\ last = Done(u, "drop_write", "ok")
        /\ LiveViews = 0
        /\ borrow = UNUSED
        /\ pc[t] = "casw"
        /\ op[t] = "try_borrow_mut"

\* C10 as stated: under fair scheduling every call in progress eventually
\* returns, whatever the other threads do.
C10_EveryCallReturns ==
    \A t \in Threads : (pc[t] # "idle") ~> (pc[t] = "idle")

\* C10 amended: under fair scheduling every try_borrow_mut / borrow_mut in
\* progress returns; try_borrow / borrow repeat their loop only when the register
\* no longer holds the loaded value, and a call that never returns implies that
\* the register is changed again and again (by other threads).
C10_LockFree ==
    /\ \A t \in Threads : []<>(pc[t] # "casw")
    /\ [][\A t \in Threads :
             (pc[t] = "cas" /\ pc'[t] = "load") => borrow # loaded[t]]_vars
    /\ \A t \in Threads :
          <>[](pc[t] # "idle") => []<><<borrow' # borrow>>_vars

\* C10 witness: a try_borrow has loaded the register and another thread has
\* changed it since, so its compare-and-swap will not apply.
C10_Witness ==
    \E t \in Threads :
        /\ pc[t] = "cas"
        /\ op[t] = "try_borrow"
        /\ loaded[t] # borrow
        /\ borrow # WRITING

\* C11: each view releases its claim exactly once, at its drop.  Over borrow,
\* map and drop steps the register is the write-sentinel while a write view is
\* held and the number of read views held otherwise; a step that ends a read
\* view decrements the register by exactly one, a step that ends a write view
\* sets it to 0, the register decreases in no other step, and no guard's
\* debug assertion fails.
C11_ReleaseExactlyOnce ==
    /\ [](borrow = IF HeldWrites > 0 THEN WRITING ELSE HeldReads)
    /\ [](last.result # "assert")
    /\ [][/\ HeldReads' < HeldReads =>
                /\ HeldReads' = HeldReads - 1
                /\ borrow' = borrow - 1
          /\ HeldWrites' < HeldWrites =>
                /\ HeldWrites' = HeldWrites - 1
                /\ borrow' = UNUSED
          /\ borrow' < borrow => (HeldReads' < HeldReads \/ HeldWrites' < HeldWrites)]_vars

\* C11 witness: of two read views, one of them projected, one has just been
\* dropped and the register counts the other.
C11_Witness ==
    \E t, u \in Threads :
        /\ last = Done(t, "drop_read", "ok")
        /\ HeldReads = 1
        /\ \E f \in Fields : rmapped[u][f] = 1
        /\ borrow = 1

\* C12: round trip.  The protected value changes only in an assignment
\* through a write view, every other step (the drop of the write view and the
\* borrows that follow included) leaves it as written, and a read through a
\* read view gives exactly the protected value, with no write view live; so a
\* read after new(v), or after the last write of V, gives v, or V.
C12_RoundTrip ==
    [][/\ value' # value => \E t \in Threads, v \in Values : Write(t, v)
       /\ \A t \in Threads : Deref(t) => (seen' = value /\ LiveWrites = 0)]_vars

\* C12 witness: the cell was created with v0; a thread that holds a read view
\* has just read v1, written before through a write view that is gone.
C12_Witness ==
    \E t \in Threads :
        /\ last = Done(t, "deref", "ok")
        /\ reads[t] = 1
        /\ seen = "v1"
        /\ value = "v1"
        /\ HeldWrites = 0

\* C13: map never re-negotiates.  A step of AtomicRef::map or AtomicRefMut::map
\* leaves the register, the value and the number of held views of each kind as
\* they were; two read views projected to the two fields of the pair are held
\* together with the register at 2, and the drop of each takes one off.
C13_MapKeepsRegister ==
    /\ [][\A t \in Threads, f \in Fields :
             (MapRead(t, f) \/ MapWrite(t, f)) =>
                /\ borrow' = borrow
                /\ value' = value
                /\ HeldReads' = HeldReads
                /\ HeldWrites' = HeldWrites]_vars
    /\ [](\A t, u \in Threads :
             (rmapped[t]["f0"] > 0 /\ rmapped[u]["f1"] > 0 /\ HeldReads = 2) =>
                borrow = 2)
    /\ [][\A t \in Threads, f \in Fields :
             DropMappedRead(t, f) => borrow' = borrow - 1]_vars

\* C13 witness: one thread holds two read views, one projected to each field;
\* the second map has just returned and the register is 2.
C13_Witness ==
    \E t \in Threads :
        /\ last = Done(t, "map", "Some")
        /\ rmapped[t]["f0"] = 1
        /\ rmapped[t]["f1"] = 1
        /\ reads[t] = 0
        /\ borrow = 2

\* C14: the debug assertions of the guards are unreachable.  In every step of
\* BorrowGuard::drop the register it decrements holds neither 0 nor the
\* write-sentinel, and in every step of MutBorrowGuard::drop the register it
\* resets holds the write-sentinel.
C14_AssertionsUnreachable ==
    [][\A t \in Threads :
          /\ DropRead(t) => (borrow # UNUSED /\ borrow # WRITING)
          /\ DropWrite(t) => borrow = WRITING]_vars

\* C15: into_inner runs only when no borrow is active.  In every step of
\* into_inner no view is live, the register holds 0 (the debug assertion
\* holds), and the call returns the protected value as last written.
C15_IntoInnerUnborrowed ==
    [][\A t \in Threads :
          IntoInner(t) =>
             /\ LiveViews = 0
             /\ borrow = UNUSED
             /\ last' = Done(t, "into_inner", "ok")
             /\ seen' = value]_vars

\* C16: a leaked write view fuses the cell.  Once an AtomicRefMut has been
\* forgotten its borrow never ends: the register holds the write-sentinel in
\* every later state, and every call that returns from then on returns None
\* (try_borrow, try_borrow_mut) or panics (borrow, borrow_mut) and creates no
\* view.
C16_LeakedWriteFuses ==
    /\ [](leakedWrites > 0 => borrow = WRITING)
    /\ [][leakedWrites > 0 =>
             /\ leakedWrites' = leakedWrites
             /\ borrow' = WRITING
             /\ reads' = reads
             /\ writes' = writes
             /\ \A t \in Threads :
                   ReturnStep(t) =>
                      last' = Done(t, op[t],
                                   IF op[t] \in {"borrow", "borrow_mut"}
                                   THEN "panic" ELSE "None")]_vars

\* C16 witness: a write view was forgotten, no view is held by any thread, and
\* a try_borrow has just returned None.
C16_Witness ==
    \E t \in Threads :
        /\ leakedWrites = 1
        /\ HeldWrites = 0
        /\ HeldReads = 0
        /\ borrow = WRITING
        /\ last = Done(t, "try_borrow", "None")

\* C17: Debug formatting never fails.  A fmt whose load happens while a write
\* view is live writes the placeholder; a fmt writes the placeholder only then,
\* and otherwise the current value; no debug assertion fails in it; the
\* placeholder path leaves the register alone, and the value path takes its
\* temporary read borrow (one up) and releases it (one down).
C17_FmtNeverFails ==
    [][\A t \in Threads :
          /\ (FmtLoad(t) /\ LiveWrites > 0) => (pc'[t] = "idle" /\ seen' = "<borrowed>")
          /\ (FmtLoad(t) /\ pc'[t] = "idle") =>
                (LiveWrites > 0 /\ seen' = "<borrowed>" /\ borrow' = borrow)
          /\ FmtCas(t) =>
                /\ pc'[t] # "idle"
                /\ pc'[t] = "fwrite" => borrow' = borrow + 1
                /\ pc'[t] = "fload" => borrow' = borrow
          /\ FmtWrite(t) =>
                /\ seen' = value
                /\ last' = Done(t, "fmt", "ok")
                /\ borrow' = borrow - 1]_vars

\* C18: a write through a projected write view changes only the projected
\* field.  AtomicRefMut::map changes neither the value nor the register; an
\* assignment through a view projected to field f stores the new value in f
\* and leaves the other field as it was; the value changes in no other step;
\* the drop of the projected view leaves the register at 0; and a later read
\* of a field through a read view gives what that field holds.
C18_ProjectedWrite ==
    [][/\ value' # value =>
             \E t \in Threads, f \in Fields, x \in Values : AssignField(t, f, x)
       /\ \A t \in Threads, f \in Fields :
             /\ MapWrite(t, f) => (value' = value /\ borrow' = WRITING)
             /\ \A x \in Values :
                   (AssignField(t, f, x) /\ writes[t] = 0) =>
                      /\ value'[f] = x
                      /\ \A g \in Fields \ {f} : value'[g] = value[g]
             /\ DropMappedWrite(t, f) => (value' = value /\ borrow' = UNUSED)
             /\ DerefField(t, f) => (seen' = value[f] /\ LiveWrites = 0)]_vars

\* C18 witness: the pair was created as (v0, v0); a thread whose only view is
\* a write view projected to f0 has just assigned v1 through it, and the other
\* field still holds v0.
C18_Witness ==
    \E t \in Threads :
        /\ last = Done(t, "assign", "f0")
        /\ wmapped[t]["f0"] = 1
        /\ writes[t] = 0
        /\ value = [f \in Fields |-> IF f = "f0" THEN "v1" ELSE "v0"]
        /\ borrow = WRITING

\* C19: InitCell is single-assignment.  While the cell holds None a get
\* returns None and an init(v) stores v; once it holds v every get returns
\* Some(v), every init panics, and no step of init or get changes what it
\* holds: the stored value changes at most once, from None to a value.
C19_SingleAssignment ==
    [][/\ data # "None" => data' = data
       /\ \A t \in Threads :
             /\ InitCell_get(t) => (seen' = data /\ data' = data)
             /\ \A v \in Inits :
                   InitCell_init(t, v) =>
                      IF data = "None"
                      THEN data' = v /\ last' = Done(t, "init", "ok")
                      ELSE data' = data /\ last' = Done(t, "init", "panic")]_vars

\* C19 witness: the cell was initialized with i1, a get has returned Some(i1),
\* and a later init has just panicked and left i1 in place.
C19_Witness ==
    \E t \in Threads :
        /\ last = Done(t, "init", "panic")
        /\ seen = "i1"
        /\ data = "i1"

\* C20: release happens exactly once when the projector panics.  A step of
\* AtomicRef::map whose projector panics ends the original read view and takes
\* exactly one off the register, back to 0 when that view was the only one;
\* with AtomicRefMut::map it ends the write view and leaves the register at 0,
\* its value before the borrow_mut; neither changes the protected value, and
\* afterwards the register again counts the views that are held.
C20_ReleaseOnPanic ==
    /\ [][\A t \in Threads :
             /\ MapReadPanic(t) =>
                   /\ last' = Done(t, "map", "panic")
                   /\ HeldReads' = HeldReads - 1
                   /\ borrow' = borrow - 1
                   /\ HeldReads = 1 => borrow' = UNUSED
                   /\ value' = value
             /\ MapWritePanic(t) =>
                   /\ last' = Done(t, "map_mut", "panic")
                   /\ HeldWrites' = HeldWrites - 1
                   /\ borrow' = UNUSED
                   /\ value' = value]_vars
    /\ [](last.result = "panic" =>
             borrow = IF HeldWrites > 0 THEN WRITING ELSE HeldReads)

\* C20 witness: the projector given to AtomicRef::map has just panicked; the
\* original view was the only one, and the register is back at 0.
C20_Witness ==
    \E t \in Threads :
        /\ last = Done(t, "map", "panic")
        /\ HeldReads = 0
        /\ HeldWrites = 0
        /\ borrow = UNUSED

\* C21: read acquisition never moves the register into the write zone.  Every
\* compare-and-swap of try_borrow / borrow that applies, from a loaded value v
\* to v + 1, leaves the register in 1..MAX-1, whatever number of read views is
\* live.
C21_ReadStaysBelowSentinel ==
    [][\A t \in Threads :
          (TryBorrowCas(t) /\ reads'[t] = reads[t] + 1) =>
             /\ borrow' = loaded[t] + 1
             /\ borrow' \in 1..(WRITING - 1)]_vars

\* C22: AtomicInitCell is single-assignment across threads.  In every
\* interleaving of init calls a call stores its value only into a cell that
\* holds None, a stored value never changes, a call returns normally only
\* after its own store, and every other call panics: at its compare-and-swap
\* while another call holds the write view, leaving the register as it was, or
\* at its assertion on an initialized cell, leaving the register at 0, its
\* value before the call took the write view.
C22_SingleAssignmentAcrossThreads ==
    /\ [](\A t \in Threads :
             /\ pc[t] = "istore" => (value = "None" /\ writes[t] = 1)
             /\ pc[t] = "idrop" => (value # "None" /\ writes[t] = 1))
    /\ [][/\ value # "None" => value' = value
          /\ \A t \in Threads :
                /\ \A v \in Inits :
                      AtomicInitStore(t, v) => (value = "None" /\ value' = v)
                /\ AtomicInitDrop(t) =>
                      (last' = Done(t, "init", "ok") /\ borrow' = UNUSED)
                /\ (AtomicInitCas(t) /\ pc'[t] = "idle") =>
                      /\ last' = Done(t, "init", "panic")
                      /\ HeldWrites = 1
                      /\ borrow' = borrow
                      /\ value' = value
                /\ (AtomicInitCas(t) /\ pc'[t] # "idle") =>
                      (pc'[t] = "icheck" /\ borrow = UNUSED /\ borrow' = WRITING)
                /\ (AtomicInitCheck(t) /\ pc'[t] = "idle") =>
                      /\ last' = Done(t, "init", "panic")
                      /\ value # "None"
                      /\ borrow' = UNUSED
                      /\ value' = value
                /\ (AtomicInitCheck(t) /\ pc'[t] # "idle") => value = "None"]_vars

\* C22 witness: one init has stored i1 and still holds the write view, and
\* the init of another thread has just panicked at its compare-and-swap.
C22_Witness ==
    \E t, u \in Threads :
        /\ t # u
        /\ last = Done(t, "init", "panic")
        /\ pc[u] = "idrop"
        /\ value = "i1"
        /\ borrow = WRITING

\* The views that callers got from borrow, try_borrow, borrow_mut,
\* try_borrow_mut or map and that are live: every live view but the temporary
\* read views inside fmt.
CallerViews == LiveViews - Cardinality({u \in Threads : pc[u] = "fwrite"})

\* C23: a try_borrow_mut returns None, and a borrow_mut panics, only if a view
\* that a caller holds is live at its compare-and-swap; the read borrow that a
\* Debug formatting on another thread holds while it formats never makes them
\* fail.
C23_FmtNeverBlocksWriter ==
    [][\A t \in Threads :
          (CasMutStep(t) /\ last'.result \in {"None", "panic"}) => CallerViews > 0]_vars

=============================================================================
